---- MODULE Spec2Model ----
(***************************************************************************)
(* A model of acrylamid/lib/importer.py: fetch, parse (rss20 / atom),      *)
(* convert and build.  Each part of the importer has its own               *)
(* specification over the shared variables:                                *)
(*   SpecConvert  convert(data, fmt) against the conversion backends       *)
(*   SpecFetch    fetch(url, auth) against a server and a console          *)
(*   SpecDate     the date normalisation of rss20 and of atom              *)
(*   SpecParse    parse(content) and the consumer of the items it returns  *)
(*   SpecBuild    build(conf, env, defaults, items, fmt, keep), run twice, *)
(*                the second run after the first has ended                 *)
(***************************************************************************)
EXTENDS Integers, Sequences, FiniteSets, TLC

VARIABLES
    cv_pc,      \* convert: "call" before the call, "done" after it
    cv_data,    \* convert: the argument data
    cv_fmt,     \* convert: the argument fmt
    cv_sys,     \* convert: what system(cmd) does for each backend program
    cv_res      \* convert: what the call returned (or raised)

convVars == <<cv_pc, cv_data, cv_fmt, cv_sys, cv_res>>

VARIABLES
    f_url,      \* fetch: the location of the top-level call
    f_stack,    \* fetch: the frames of fetch, the innermost last
    f_reqs,     \* fetch: the requests urlopen has sent, with the status received
    f_prompts,  \* fetch: the number of times the console asked for credentials
    f_res       \* fetch: how the top-level call ended

fetchVars == <<f_url, f_stack, f_reqs, f_prompts, f_res>>

VARIABLES
    tz,         \* the machine's local time zone, as hours east of UTC
    d_pc,       \* dates: "call" before the two normalisations, "done" after
    d_rss,      \* dates: a pubDate, as its wall clock hour and its zone
    d_atom,     \* dates: an updated stamp "...Z", as its wall clock hour
    d_out       \* dates: the datetime each of the two became

dateVars == <<tz, d_pc, d_rss, d_atom, d_out>>

VARIABLES
    p_doc,      \* parse: the document in content
    p_pc,       \* parse: "call", then "iter" (parse returned), "stopped"
                \*        (the generator is exhausted) or "raised"
    p_res,      \* parse: the methods tried, the reasons collected, the
                \*        generator and the defaults parse returned
    p_idx,      \* parse: the number of items the generator has gone through
    p_yielded,  \* parse: the items the generator has yielded, in order
    p_err,      \* parse: the exception that reached the caller, if any
    p_late      \* parse: the requests made of the generator after its end

parseVars == <<p_doc, p_pc, p_res, p_idx, p_yielded, p_err, p_late>>

VARIABLES
    b_items,    \* build: the argument items
    b_fmt,      \* build: the argument fmt
    b_keep,     \* build: the argument keep
    b_fs,       \* build: the files on disk, path |-> content
    b_tmpn,     \* build: the number of temporary files mkstemp has made
    b_events,   \* build: the calls of event.create, in order
    b_run       \* build: per run, where it stands

buildVars == <<b_items, b_fmt, b_keep, b_fs, b_tmpn, b_events, b_run>>

vars == <<convVars, fetchVars, dateVars, parseVars, buildVars>>

(***************************************************************************)
(* Text values.  py tells None from a string; s is the text; via and to    *)
(* are empty for text that no backend produced, and name the backend and   *)
(* its target format for text read from a backend's standard output.       *)
(***************************************************************************)
PyNone == [py |-> "None", s |-> "", via |-> "", to |-> ""]

Str(s) == [py |-> "str", s |-> s, via |-> "", to |-> ""]

(***************************************************************************)
(* convert                                                                 *)
(***************************************************************************)
MarkdownAliases == {"Markdown", "markdown", "mkdown", "md", "mkd"}

RstAliases == {"rst", "restructuredtext", "rest", "reStructuredText"}

\* the values of fmt the model calls convert with: every alias, html, and
\* names that are no alias
Formats == MarkdownAliases \cup RstAliases \cup {"html", "HTML", "textile", "Textile"}

Backends == {"pandoc", "html2text", "html2rest"}

\* system(cmd, stdin): the program's output, AcrylamidException (non-zero
\* exit) or OSError (the program cannot be run)
Outcomes == {"ok", "AcrylamidException", "OSError"}

HtmlInputs == {PyNone, Str(""), Str("<p>a</p>"), Str("b &amp; c")}

\* str.lower() on the format names of the model
Lower(f) ==
    CASE f = "Markdown" -> "markdown"
      [] f = "reStructuredText" -> "restructuredtext"
      [] f = "HTML" -> "html"
      [] f = "Textile" -> "textile"
      [] OTHER -> f

FmtOf_NoFolding(fmt) == fmt

\* fmt after the if/elif/else of lines 45-52
FmtOf(fmt) ==
    IF fmt \in MarkdownAliases THEN "markdown"
    ELSE IF fmt \in RstAliases THEN "rst"
    ELSE fmt

\* cmds after the if/elif/else of lines 45-52
SpecificCmds(fmt) ==
    IF fmt \in MarkdownAliases THEN <<"html2text">>
    ELSE IF fmt \in RstAliases THEN <<"html2rest">>
    ELSE <<>>

Cmds_NoPandoc(fmt) == SpecificCmds(fmt)

Cmds_SpecificFirst(fmt) == SpecificCmds(fmt) \o <<"pandoc">>

\* cmds after cmds.insert(0, ['pandoc', ..., '-t', fmt, '--strict'])
Cmds(fmt) == <<"pandoc">> \o SpecificCmds(fmt)

\* data is None or data is '' (CPython keeps one empty str object, so the
\* identity test is true of every empty str)
IsEmpty(data) == data = PyNone \/ data = Str("")

\* what a backend writes to its standard output for the input data
System(tool, f, data) == [py |-> "str", s |-> data.s, via |-> tool, to |-> f]

Caught_OnlyAcrylamid(outcome) == outcome = "AcrylamidException"

\* the two except clauses of the loop
Caught(outcome) == outcome \in {"AcrylamidException", "OSError"}

Ret(text, tag, invoked) ==
    [text |-> text, tag |-> tag, invoked |-> invoked, raised |-> "none"]

Raise(exc, invoked) ==
    [text |-> PyNone, tag |-> "", invoked |-> invoked, raised |-> exc]

RECURSIVE TryCmds(_, _, _, _, _, _)
\* for cmd in cmds: try ... except ... else: return data, 'html'
TryCmds(cmds, i, data, f, sys, invoked) ==
    IF i > Len(cmds) THEN Ret(data, "html", invoked)
    ELSE LET cmd == cmds[i]
             inv == Append(invoked, cmd)
         IN IF sys[cmd] = "ok" THEN Ret(System(cmd, f, data), Lower(f), inv)
            ELSE IF Caught(sys[cmd])
                 THEN TryCmds(cmds, i + 1, data, f, sys, inv)
                 ELSE Raise(sys[cmd], inv)

convert(data, fmt, sys) ==
    LET f == FmtOf(fmt)
        cmds == Cmds(fmt)
    IN IF f = "html" THEN Ret(data, "html", <<>>)
       ELSE IF IsEmpty(data) THEN Ret(Str(""), f, <<>>)
       ELSE TryCmds(cmds, 1, data, f, sys, <<>>)

Convert ==
    /\ cv_pc = "call"
    /\ cv_res' = convert(cv_data, cv_fmt, cv_sys)
    /\ cv_pc' = "done"
    /\ UNCHANGED <<cv_data, cv_fmt, cv_sys>>
    /\ UNCHANGED <<fetchVars, dateVars, parseVars, buildVars>>

(***************************************************************************)
(* fetch                                                                   *)
(***************************************************************************)
\* the deepest nesting of fetch the model follows
MaxFetchDepth == 3

Urls == {"http://host/feed", "https://host/feed", "/var/feed.xml"}

\* url.startswith('http://') or url.startswith('https://')
IsHttp(url) == url \in {"http://host/feed", "https://host/feed"}

\* auth of the top-level call: None, or credentials the caller passes
Auths == {"", "user:secret"}

\* what the console returns to raw_input and getpass, joined by ':'
Typed == {"user:secret", "user:typo"}

StatusCodes == {200, 401, 404}

NoBody == [src |-> "none", n |-> 0]

FileBody == [src |-> "file", n |-> 0]

\* r.read() of the response to the n-th request
ResponseBody(n) == [src |-> "response", n |-> n]

Pending == [kind |-> "pending", body |-> NoBody, exc |-> "", msg |-> ""]

Returned(body) == [kind |-> "return", body |-> body, exc |-> "", msg |-> ""]

Raised(exc, msg) == [kind |-> "raise", body |-> NoBody, exc |-> exc, msg |-> msg]

Frame(auth) == [auth |-> auth, pc |-> "open", code |-> 0]

Top == f_stack[Len(f_stack)]

SetTop(frame) == [f_stack EXCEPT ![Len(f_stack)] = frame]

\* lines 177-183: a local path is opened and read; only OSError is turned
\* into AcrylamidException, any other error of open or read leaves fetch as
\* it is
FetchLocal ==
    /\ f_stack # <<>> /\ Top.pc = "open" /\ ~IsHttp(f_url)
    /\ \E io \in {"ok", "OSError", "IOError"} :
          f_res' = CASE io = "ok" -> Returned(FileBody)
                     [] io = "OSError" -> Raised("AcrylamidException", "os error")
                     [] OTHER -> Raised("IOError", "io error")
    /\ f_stack' = <<>>
    /\ UNCHANGED <<f_url, f_reqs, f_prompts>>
    /\ UNCHANGED <<convVars, dateVars, parseVars, buildVars>>

\* lines 185-192: the request is built (with the Authorization header when
\* auth is given) and sent; HTTPError becomes AcrylamidException, which no
\* enclosing frame of fetch catches
FetchOpen ==
    /\ f_stack # <<>> /\ Top.pc = "open" /\ IsHttp(f_url)
    /\ \/ /\ f_reqs' = Append(f_reqs, [auth |-> Top.auth, code |-> 0])
          /\ f_res' = Raised("AcrylamidException", "HTTPError")
          /\ f_stack' = <<>>
       \/ \E c \in StatusCodes :
             /\ f_reqs' = Append(f_reqs, [auth |-> Top.auth, code |-> c])
             /\ f_stack' = SetTop([Top EXCEPT !.pc = "got", !.code = c])
             /\ f_res' = f_res
    /\ UNCHANGED <<f_url, f_prompts>>
    /\ UNCHANGED <<convVars, dateVars, parseVars, buildVars>>

\* lines 194-197: on 401 the console is asked for a user name and a
\* password and fetch calls itself with them
FetchPrompt ==
    /\ f_stack # <<>> /\ Top.pc = "got" /\ Top.code = 401
    /\ Len(f_stack) < MaxFetchDepth
    /\ \E cred \in Typed :
          f_stack' = Append(SetTop([Top EXCEPT !.pc = "await"]), Frame(cred))
    /\ f_prompts' = f_prompts + 1
    /\ UNCHANGED <<f_url, f_reqs, f_res>>
    /\ UNCHANGED <<convVars, dateVars, parseVars, buildVars>>

\* the frames that wait in line 197 for the inner call: its value is
\* dropped, and the frame goes on to line 201 with its own response
AfterInnerReturn(body) ==
    IF Len(f_stack) = 1 THEN Returned(body)
    ELSE Raised("AcrylamidException", "invalid status code 401")

\* lines 198-199: on 200 the body is returned to the caller of this frame
FetchReturn ==
    /\ f_stack # <<>> /\ Top.pc = "got" /\ Top.code = 200
    /\ f_res' = AfterInnerReturn(ResponseBody(Len(f_reqs)))
    /\ f_stack' = <<>>
    /\ UNCHANGED <<f_url, f_reqs, f_prompts>>
    /\ UNCHANGED <<convVars, dateVars, parseVars, buildVars>>

\* line 201: any other status raises, through every enclosing frame
FetchBadStatus ==
    /\ f_stack # <<>> /\ Top.pc = "got" /\ Top.code \notin {200, 401}
    /\ f_res' = Raised("AcrylamidException", "invalid status code")
    /\ f_stack' = <<>>
    /\ UNCHANGED <<f_url, f_reqs, f_prompts>>
    /\ UNCHANGED <<convVars, dateVars, parseVars, buildVars>>

(***************************************************************************)
(* Dates.  A naive datetime is counted in hours from 2002-10-02 00:00; a   *)
(* POSIX timestamp in hours from 2002-10-02 00:00 UTC.                     *)
(***************************************************************************)
\* the latest wall clock hour of a stamp
MaxHour == 23

\* the widest local offset and stamp zone, in hours either side of UTC
MaxOffset == 2

Hours == 0..MaxHour

Zones == (0 - MaxOffset)..MaxOffset

\* "Wed, 02 Oct 2002 hh:00:00 <zone>"
RssStamps == [wall : Hours, zone : Zones]

\* "2002-10-02Thh:00:00Z"
AtomStamps == [wall : Hours]

\* email.utils.mktime_tz(parsedate_tz(stamp)): the instant the stamp names
mktime_tz(stamp) == stamp.wall - stamp.zone

\* datetime.fromtimestamp(ts): the local wall clock at the instant ts
fromtimestamp(ts, local) == ts + local

\* rss20's parse_date_time
parse_date_time(stamp, local) == fromtimestamp(mktime_tz(stamp), local)

\* datetime.strptime(stamp, "%Y-%m-%dT%H:%M:%SZ"): the wall clock as written
strptime(stamp) == stamp.wall

NormalizeDates ==
    /\ d_pc = "call"
    /\ d_out' = [rss |-> parse_date_time(d_rss, tz), atom |-> strptime(d_atom)]
    /\ d_pc' = "done"
    /\ UNCHANGED <<tz, d_rss, d_atom>>
    /\ UNCHANGED <<convVars, fetchVars, parseVars, buildVars>>

(***************************************************************************)
(* Feed documents, as ElementTree sees them.                               *)
(*   wf       the text is well-formed XML                                  *)
(*   root     the root tag: "rss", "{http://www.w3.org/2005/Atom}feed" or  *)
(*            some other tag                                               *)
(*   version  the root's version attribute                                 *)
(*   channel  the root has a first child (rss: the channel)                *)
(*   meta     the document-level elements that are present                 *)
(*   items    the item (rss) or entry (atom) elements, in document order;  *)
(*            has: the child elements present, under the key rss20 and     *)
(*            atom store them by; ctype: the type attribute of content     *)
(***************************************************************************)
\* the most items a document of the model holds
MaxItems == 2

AtomFeed == "{http://www.w3.org/2005/Atom}feed"

Required == <<"title", "date", "link", "content">>

RequiredSet == {Required[i] : i \in 1..4}

RssMeta == {"title", "link", "language"}

AtomMeta == {"title", "id", "author"}

SeqsUpTo(S, n) == UNION {[1..k -> S] : k \in 0..n}

RssItems == [has : SUBSET RequiredSet, ctype : {""}]

AtomEntries ==
    {e \in [has : SUBSET RequiredSet, ctype : {"html", "text"}] :
        "content" \notin e.has => e.ctype = "text"}

NotXml ==
    [wf |-> FALSE, root |-> "", version |-> "", channel |-> FALSE,
     meta |-> {}, items |-> <<>>]

Page(root) ==
    [wf |-> TRUE, root |-> root, version |-> "", channel |-> TRUE,
     meta |-> {}, items |-> <<>>]

RssDocs ==
    [wf : {TRUE}, root : {"rss"}, version : {"2.0", "0.92"}, channel : {TRUE},
     meta : SUBSET RssMeta, items : SeqsUpTo(RssItems, MaxItems)]

AtomDocs ==
    [wf : {TRUE}, root : {AtomFeed}, version : {""}, channel : {TRUE},
     meta : SUBSET AtomMeta, items : SeqsUpTo(AtomEntries, MaxItems)]

Docs ==
    {NotXml, Page("html"), Page("feed"), [Page("rss") EXCEPT !.channel = FALSE]}
        \cup RssDocs \cup AtomDocs

\* the text of element elem of the n-th item (n = 0: of the feed itself);
\* esc: character references in it are still escaped
Text(elem, n) == [of |-> elem, n |-> n, esc |-> TRUE]

\* unescape(s): named character references become characters.  (Elements
\* of the model always carry text; an element without text has text None.)
unescape(s) == [s EXCEPT !.esc = FALSE]

NoErr == [exc |-> "", msg |-> "", reasons |-> <<>>]

Err(exc, msg) == [exc |-> exc, msg |-> msg, reasons |-> <<>>]

\* what running a generator up to its next yield gives: a value (yield),
\* or an exception; val holds the value yielded, if any
Yield(v) == [kind |-> "yield", val |-> <<v>>, err |-> NoErr]

Throw(exc, msg) == [kind |-> "raise", val |-> <<>>, err |-> Err(exc, msg)]

RssKey(k) ==
    CASE k = "title" -> "sitename"
      [] k = "link" -> "www_root"
      [] k = "language" -> "lang"

AtomKey(k) ==
    CASE k = "title" -> "title"
      [] k = "id" -> "www_root"
      [] k = "author" -> "author"

\* the signature of RSS 2.0 as the error message of line 87 names it
RssSignature_Fixed(doc) == doc.root = "rss" /\ doc.version = "2.0"

\* line 86, negated: the test a document passes to go on as RSS 2.0
RssSignature(doc) == ~(doc.root # "rss" \/ doc.version = "2.0")

\* rss20 from its first line to `yield defaults`
rss20Head(doc) ==
    IF ~doc.wf THEN Throw("InvalidSource", "no well-formed XML")
    ELSE IF ~RssSignature(doc) THEN Throw("InvalidSource", "no RSS 2.0 feed")
    ELSE IF ~doc.channel THEN Throw("IndexError", "list index out of range")
    ELSE Yield({[key |-> RssKey(k), val |-> Text(k, 0)] : k \in doc.meta})

\* rss20: one round of the loop over the items, for the i-th item
rss20Item(doc, i, local) ==
    LET item == doc.items[i]
        entry == item.has
    IN IF \E k \in RequiredSet : k \notin entry
       THEN Throw("AcrylamidException", "invalid RSS 2.0 feed")
       ELSE Yield([title |-> Text("title", i),
                   content |-> unescape(Text("content", i)),
                   date |-> parse_date_time([wall |-> i, zone |-> 0], local),
                   link |-> Text("link", i)])

\* atom from its first line to `yield defaults`
atomHead(doc) ==
    IF ~doc.wf THEN Throw("InvalidSource", "no well-formed XML")
    ELSE IF doc.root # AtomFeed THEN Throw("InvalidSource", "no Atom feed")
    ELSE IF doc.meta # AtomMeta
         THEN Throw("AttributeError", "'NoneType' object has no attribute")
    ELSE Yield({[key |-> AtomKey(k), val |-> Text(k, 0)] : k \in doc.meta})

\* lines 153-159: the four assignments stop at the first absent element
AtomEntryKeys(has) ==
    {Required[j] : j \in {j \in 1..4 : \A h \in 1..j : Required[h] \in has}}

\* atom: one round of the loop over the entries, for the i-th entry
atomItem(doc, i) ==
    LET item == doc.items[i]
        entry == AtomEntryKeys(item.has)
    IN IF "content" \notin item.has
       THEN Throw("AttributeError", "'NoneType' object has no attribute")
       ELSE IF item.ctype = "html" /\ "content" \notin entry
       THEN Throw("KeyError", "content")
       ELSE IF \E k \in RequiredSet : k \notin entry
       THEN Throw("AcrylamidException", "invalid Atom feed")
       ELSE Yield([title |-> Text("title", i),
                   content |-> IF item.ctype = "html"
                               THEN unescape(Text("content", i))
                               ELSE Text("content", i),
                   date |-> strptime([wall |-> i]),
                   link |-> Text("link", i)])

Methods == <<"rss20", "atom">>

\* method(content) followed by res.next()
FirstNext(method, doc) == IF method = "rss20" THEN rss20Head(doc) ELSE atomHead(doc)

ParseResult(gen, defaults, tried, failed, err) ==
    [gen |-> gen, defaults |-> defaults, tried |-> tried, failed |-> failed,
     err |-> err]

RECURSIVE TryMethods_NoFallback(_, _, _)
TryMethods_NoFallback(doc, i, failed) ==
    LET r == FirstNext(Methods[i], doc)
    IN IF r.kind = "yield"
       THEN ParseResult(Methods[i], r.val[1], SubSeq(Methods, 1, i), failed, NoErr)
       ELSE ParseResult("", {}, SubSeq(Methods, 1, i), failed, r.err)

RECURSIVE TryMethods(_, _, _)
\* the loop of parse over (rss20, atom), from the i-th method on
TryMethods(doc, i, failed) ==
    IF i > Len(Methods)
    THEN ParseResult("", {}, Methods, failed,
                     [exc |-> "AcrylamidException", msg |-> "unable to parse source",
                      reasons |-> failed])
    ELSE LET r == FirstNext(Methods[i], doc)
         IN IF r.kind = "yield"
            THEN ParseResult(Methods[i], r.val[1], SubSeq(Methods, 1, i), failed, NoErr)
            ELSE IF r.err.exc = "InvalidSource"
            THEN TryMethods(doc, i + 1, Append(failed, r.err.msg))
            ELSE ParseResult("", {}, SubSeq(Methods, 1, i), failed, r.err)

parse(doc) == TryMethods(doc, 1, <<>>)

NotCalled == ParseResult("", {}, <<>>, <<>>, NoErr)

\* parse(content): returns (defaults, generator) or raises
Parse ==
    /\ p_pc = "call"
    /\ p_res' = parse(p_doc)
    /\ p_err' = parse(p_doc).err
    /\ p_pc' = IF parse(p_doc).err = NoErr THEN "iter" ELSE "raised"
    /\ UNCHANGED <<p_doc, p_idx, p_yielded, p_late>>
    /\ UNCHANGED <<convVars, fetchVars, dateVars, buildVars>>

\* the generator from the yield it waits in to its next yield or its end
Resume(gen, doc, i, local) ==
    IF i > Len(doc.items) THEN Throw("StopIteration", "")
    ELSE IF gen = "rss20" THEN rss20Item(doc, i, local)
    ELSE atomItem(doc, i)

\* the consumer asks the generator for the next item
GenNext ==
    /\ p_pc = "iter"
    /\ LET r == Resume(p_res.gen, p_doc, p_idx + 1, tz)
       IN /\ p_yielded' = p_yielded \o r.val
          /\ p_idx' = IF r.kind = "yield" THEN p_idx + 1 ELSE p_idx
          /\ p_pc' = IF r.kind = "yield" THEN "iter"
                     ELSE IF r.err.exc = "StopIteration" THEN "stopped"
                     ELSE "raised"
          /\ p_err' = IF r.kind = "yield" \/ r.err.exc = "StopIteration"
                      THEN p_err ELSE r.err
    /\ UNCHANGED <<p_doc, p_res, p_late>>
    /\ UNCHANGED <<convVars, fetchVars, dateVars, buildVars>>

\* requests made of the generator after it has ended
MaxLateCalls == 2

GenNextFinished_Restarts ==
    /\ p_pc \in {"stopped", "raised"} /\ p_res.gen # ""
    /\ p_late < MaxLateCalls
    /\ LET r == Resume(p_res.gen, p_doc, 1, tz)
       IN /\ p_yielded' = p_yielded \o r.val
          /\ p_idx' = IF r.kind = "yield" THEN 1 ELSE p_idx
          /\ p_pc' = IF r.kind = "yield" THEN "iter" ELSE p_pc
    /\ p_late' = p_late + 1
    /\ UNCHANGED <<p_doc, p_res, p_err>>
    /\ UNCHANGED <<convVars, fetchVars, dateVars, buildVars>>

\* the consumer asks again after the generator returned or raised: its
\* frame is gone, next() raises StopIteration and nothing is yielded
GenNextFinished ==
    /\ p_pc \in {"stopped", "raised"} /\ p_res.gen # ""
    /\ p_late < MaxLateCalls
    /\ LET r == Throw("StopIteration", "")
       IN p_yielded' = p_yielded \o r.val
    /\ p_late' = p_late + 1
    /\ UNCHANGED <<p_doc, p_pc, p_res, p_idx, p_err>>
    /\ UNCHANGED <<convVars, fetchVars, dateVars, buildVars>>

(***************************************************************************)
(* build.  A URL path or permalink is the sequence of its segments after   *)
(* the leading '/': "/" is <<"">>, "/x/" is <<"x", "">>, and the empty     *)
(* string is <<>>.  A file path is its segments, its extension and, for a  *)
(* file of mkstemp, the number that makes its name unique.                 *)
(***************************************************************************)
\* the most items build is called with
MaxBuildItems == 2

Runs == {1, 2}

Titles == {"a", "b"}

\* the links of the items: "http://host/", "http://host" and "http://host/x/"
Links == {"http://host/", "http://host", "http://host/x/"}

\* urlsplit(link).path
urlsplit_path(link) ==
    CASE link = "http://host/" -> <<"">>
      [] link = "http://host" -> <<>>
      [] link = "http://host/x/" -> <<"x", "">>

RootPath == <<"">>

NoPermalink == <<"None">>

BuildItems ==
    [title : Titles, date : {13}, link : Links, content : {Str("<p>a</p>")}]

\* what the backends do when build converts an item
BuildSys == [Backends -> Outcomes]

BuildFormats == {"markdown", "html"}

Front(s) == SubSeq(s, 1, Len(s) - 1)

\* lines 252-257: the permalink argument of create
PermalinkArg_IgnoreKeep(item, keep) ==
    IF urlsplit_path(item.link) # RootPath
    THEN urlsplit_path(item.link)
    ELSE NoPermalink

PermalinkArg(item, keep) ==
    IF keep /\ urlsplit_path(item.link) # RootPath
    THEN urlsplit_path(item.link)
    ELSE NoPermalink

\* `if permalink:` (None and '' are false)
Truthy(permalink) == permalink # NoPermalink /\ permalink # <<>>

\* lines 227-234: what create writes to the temporary file
FrontMatter(item, fmt, permalink, content) ==
    [title |-> item.title,
     date |-> item.date,
     filter |-> fmt,
     permalink |-> IF Truthy(permalink) THEN permalink ELSE NoPermalink,
     body |-> content.text]

\* FileEntry(tmp, conf).permalink: the permalink of the front matter when
\* it has one, else the one the store derives from title and date
EntryPermalink(file) ==
    IF file.permalink # NoPermalink THEN file.permalink
    ELSE <<"2002", file.title, "">>

\* dirname(permalink)[1:], as segments
DirnameRel(permalink) == IF permalink = <<>> THEN <<>> ELSE Front(permalink)

\* join(conf['entries_dir'], rel) + '.txt'
FilePath(permalink) ==
    [segs |-> <<"content">> \o
              (IF DirnameRel(permalink) = <<>> THEN <<"">> ELSE DirnameRel(permalink)),
     ext |-> ".txt", tmp |-> 0]

\* tempfile.mkstemp(suffix='.txt'): a name no file has
TmpPath(n) == [segs |-> <<"tmp">>, ext |-> ".txt", tmp |-> n]

\* the destinations the items can have
DestPaths(items, fmt, keep) ==
    {FilePath(EntryPermalink(
        FrontMatter(items[i], fmt, PermalinkArg(items[i], keep), Ret(PyNone, "", <<>>)))) :
        i \in 1..Len(items)}

\* a file some other writer of the store has put there
Foreign == [title |-> "foreign", date |-> 0, filter |-> "", permalink |-> NoPermalink,
            body |-> PyNone]

isfile_Never(fs, path) == FALSE

\* os.path.isfile(filepath)
isfile(fs, path) == path \in DOMAIN fs

WriteFile(fs, path, content) ==
    [q \in (DOMAIN fs) \cup {path} |-> IF q = path THEN content ELSE fs[q]]

\* os.rename(tmp, filepath): replaces filepath when it exists
rename(fs, src, dst) ==
    [q \in ((DOMAIN fs) \ {src}) \cup {dst} |-> IF q = dst THEN fs[src] ELSE fs[q]]

NoPath == [segs |-> <<>>, ext |-> "", tmp |-> 0]

RunStart == [pc |-> "loop", i |-> 1, tmp |-> NoPath, dest |-> NoPath, err |-> NoErr]

\* lines 250-244: the next item is converted, its front matter and body are
\* written to a new temporary file, and its destination is worked out; the
\* directories above it are made, an OSError of makedirs being ignored
BuildWrite(r) ==
    /\ b_run[r].pc = "loop" /\ b_run[r].i <= Len(b_items)
    /\ \E sys \in BuildSys :
          LET item == b_items[b_run[r].i]
              file == FrontMatter(item, b_fmt, PermalinkArg(item, b_keep),
                                  convert(item.content, b_fmt, sys))
              tmp == TmpPath(b_tmpn + 1)
          IN /\ b_fs' = WriteFile(b_fs, tmp, file)
             /\ b_run' = [b_run EXCEPT ![r].pc = "check", ![r].tmp = tmp,
                                       ![r].dest = FilePath(EntryPermalink(file))]
    /\ b_tmpn' = b_tmpn + 1
    /\ UNCHANGED <<b_items, b_fmt, b_keep, b_events>>
    /\ UNCHANGED <<convVars, fetchVars, dateVars, parseVars>>

BuildCheck_SkipExisting(r) ==
    /\ b_run[r].pc = "check"
    /\ b_run' = IF isfile(b_fs, b_run[r].dest)
                THEN [b_run EXCEPT ![r].pc = "loop", ![r].i = b_run[r].i + 1]
                ELSE [b_run EXCEPT ![r].pc = "rename"]
    /\ UNCHANGED <<b_items, b_fmt, b_keep, b_fs, b_tmpn, b_events>>
    /\ UNCHANGED <<convVars, fetchVars, dateVars, parseVars>>

\* lines 245-246: an existing destination ends the run
BuildCheck(r) ==
    /\ b_run[r].pc = "check"
    /\ b_run' = IF isfile(b_fs, b_run[r].dest)
                THEN [b_run EXCEPT ![r].pc = "raised",
                        ![r].err = Err("AcrylamidException", "Entry already exists")]
                ELSE [b_run EXCEPT ![r].pc = "rename"]
    /\ UNCHANGED <<b_items, b_fmt, b_keep, b_fs, b_tmpn, b_events>>
    /\ UNCHANGED <<convVars, fetchVars, dateVars, parseVars>>

\* lines 247-248: the temporary file is renamed into place and announced
BuildRename(r) ==
    /\ b_run[r].pc = "rename"
    /\ b_fs' = rename(b_fs, b_run[r].tmp, b_run[r].dest)
    /\ b_events' = Append(b_events, [run |-> r, path |-> b_run[r].dest,
                                     wrote |-> b_fs[b_run[r].tmp]])
    /\ b_run' = [b_run EXCEPT ![r].pc = "loop", ![r].i = b_run[r].i + 1]
    /\ UNCHANGED <<b_items, b_fmt, b_keep, b_tmpn>>
    /\ UNCHANGED <<convVars, fetchVars, dateVars, parseVars>>

\* the loop over the items ends
BuildReturn(r) ==
    /\ b_run[r].pc = "loop" /\ b_run[r].i > Len(b_items)
    /\ b_run' = [b_run EXCEPT ![r].pc = "done"]
    /\ UNCHANGED <<b_items, b_fmt, b_keep, b_fs, b_tmpn, b_events>>
    /\ UNCHANGED <<convVars, fetchVars, dateVars, parseVars>>

Ended(r) == b_run[r].pc \in {"done", "raised"}

NextConvert == Convert

InitConvert ==
    /\ cv_pc = "call"
    /\ cv_data \in HtmlInputs
    /\ cv_fmt \in Formats
    /\ cv_sys \in [Backends -> Outcomes]
    /\ cv_res = Ret(PyNone, "", <<>>)
    /\ f_url = "/var/feed.xml"
    /\ f_stack = <<>>
    /\ f_reqs = <<>>
    /\ f_prompts = 0
    /\ f_res = Pending
    /\ tz = 0
    /\ d_pc = "idle"
    /\ d_rss = [wall |-> 13, zone |-> 0]
    /\ d_atom = [wall |-> 13]
    /\ d_out = [rss |-> 0, atom |-> 0]
    /\ p_doc = NotXml
    /\ p_pc = "idle"
    /\ p_res = NotCalled
    /\ p_idx = 0
    /\ p_yielded = <<>>
    /\ p_err = NoErr
    /\ p_late = 0
    /\ b_items = <<>>
    /\ b_fmt = "markdown"
    /\ b_keep = FALSE
    /\ b_fs = <<>>
    /\ b_tmpn = 0
    /\ b_events = <<>>
    /\ b_run = [r \in Runs |-> [RunStart EXCEPT !.pc = "idle"]]

SpecConvert == InitConvert /\ [][NextConvert]_vars

NextFetch ==
    \/ FetchLocal
    \/ FetchOpen
    \/ FetchPrompt
    \/ FetchReturn
    \/ FetchBadStatus

InitFetch ==
    /\ f_url \in Urls
    /\ f_stack \in {<<Frame(a)>> : a \in Auths}
    /\ f_reqs = <<>>
    /\ f_prompts = 0
    /\ f_res = Pending
    /\ cv_pc = "idle"
    /\ cv_data = PyNone
    /\ cv_fmt = "markdown"
    /\ cv_sys = [b \in Backends |-> "ok"]
    /\ cv_res = Ret(PyNone, "", <<>>)
    /\ tz = 0
    /\ d_pc = "idle"
    /\ d_rss = [wall |-> 13, zone |-> 0]
    /\ d_atom = [wall |-> 13]
    /\ d_out = [rss |-> 0, atom |-> 0]
    /\ p_doc = NotXml
    /\ p_pc = "idle"
    /\ p_res = NotCalled
    /\ p_idx = 0
    /\ p_yielded = <<>>
    /\ p_err = NoErr
    /\ p_late = 0
    /\ b_items = <<>>
    /\ b_fmt = "markdown"
    /\ b_keep = FALSE
    /\ b_fs = <<>>
    /\ b_tmpn = 0
    /\ b_events = <<>>
    /\ b_run = [r \in Runs |-> [RunStart EXCEPT !.pc = "idle"]]

SpecFetch == InitFetch /\ [][NextFetch]_vars

NextDate == NormalizeDates

InitDate ==
    /\ tz \in Zones
    /\ d_pc = "call"
    /\ d_rss \in RssStamps
    /\ d_atom \in AtomStamps
    /\ d_out = [rss |-> 0, atom |-> 0]
    /\ cv_pc = "idle"
    /\ cv_data = PyNone
    /\ cv_fmt = "markdown"
    /\ cv_sys = [b \in Backends |-> "ok"]
    /\ cv_res = Ret(PyNone, "", <<>>)
    /\ f_url = "/var/feed.xml"
    /\ f_stack = <<>>
    /\ f_reqs = <<>>
    /\ f_prompts = 0
    /\ f_res = Pending
    /\ p_doc = NotXml
    /\ p_pc = "idle"
    /\ p_res = NotCalled
    /\ p_idx = 0
    /\ p_yielded = <<>>
    /\ p_err = NoErr
    /\ p_late = 0
    /\ b_items = <<>>
    /\ b_fmt = "markdown"
    /\ b_keep = FALSE
    /\ b_fs = <<>>
    /\ b_tmpn = 0
    /\ b_events = <<>>
    /\ b_run = [r \in Runs |-> [RunStart EXCEPT !.pc = "idle"]]

SpecDate == InitDate /\ [][NextDate]_vars

NextParse ==
    \/ Parse
    \/ GenNext
    \/ GenNextFinished

InitParse ==
    /\ p_doc \in Docs
    /\ p_pc = "call"
    /\ p_res = NotCalled
    /\ p_idx = 0
    /\ p_yielded = <<>>
    /\ p_err = NoErr
    /\ p_late = 0
    /\ tz = 0
    /\ d_pc = "idle"
    /\ d_rss = [wall |-> 13, zone |-> 0]
    /\ d_atom = [wall |-> 13]
    /\ d_out = [rss |-> 0, atom |-> 0]
    /\ cv_pc = "idle"
    /\ cv_data = PyNone
    /\ cv_fmt = "markdown"
    /\ cv_sys = [b \in Backends |-> "ok"]
    /\ cv_res = Ret(PyNone, "", <<>>)
    /\ f_url = "/var/feed.xml"
    /\ f_stack = <<>>
    /\ f_reqs = <<>>
    /\ f_prompts = 0
    /\ f_res = Pending
    /\ b_items = <<>>
    /\ b_fmt = "markdown"
    /\ b_keep = FALSE
    /\ b_fs = <<>>
    /\ b_tmpn = 0
    /\ b_events = <<>>
    /\ b_run = [r \in Runs |-> [RunStart EXCEPT !.pc = "idle"]]

SpecParse == InitParse /\ [][NextParse]_vars

\* the second run starts when the first has ended
Turn(r) == r = 1 \/ Ended(1)

NextBuild ==
    \/ \E r \in Runs : Turn(r) /\ BuildWrite(r)
    \/ \E r \in Runs : Turn(r) /\ BuildCheck(r)
    \/ \E r \in Runs : Turn(r) /\ BuildRename(r)
    \/ \E r \in Runs : Turn(r) /\ BuildReturn(r)

InitBuild ==
    /\ b_items \in SeqsUpTo(BuildItems, MaxBuildItems)
    /\ b_fmt \in BuildFormats
    /\ b_keep \in BOOLEAN
    /\ b_fs \in {<<>>} \cup {WriteFile(<<>>, d, Foreign) : d \in DestPaths(b_items, b_fmt, b_keep)}
    /\ b_tmpn = 0
    /\ b_events = <<>>
    /\ b_run = [r \in Runs |-> RunStart]
    /\ p_doc = NotXml
    /\ p_pc = "idle"
    /\ p_res = NotCalled
    /\ p_idx = 0
    /\ p_yielded = <<>>
    /\ p_err = NoErr
    /\ p_late = 0
    /\ tz = 0
    /\ d_pc = "idle"
    /\ d_rss = [wall |-> 13, zone |-> 0]
    /\ d_atom = [wall |-> 13]
    /\ d_out = [rss |-> 0, atom |-> 0]
    /\ cv_pc = "idle"
    /\ cv_data = PyNone
    /\ cv_fmt = "markdown"
    /\ cv_sys = [b \in Backends |-> "ok"]
    /\ cv_res = Ret(PyNone, "", <<>>)
    /\ f_url = "/var/feed.xml"
    /\ f_stack = <<>>
    /\ f_reqs = <<>>
    /\ f_prompts = 0
    /\ f_res = Pending

SpecBuild == InitBuild /\ [][NextBuild]_vars

\* two runs of build as two processes on one store: the steps of create
\* (write 226-234, isfile 245, rename 247) of either run in any order
NextRace ==
    \/ \E r \in Runs : BuildWrite(r)
    \/ \E r \in Runs : BuildCheck(r)
    \/ \E r \in Runs : BuildRename(r)
    \/ \E r \in Runs : BuildReturn(r)

\* both runs are given the same items; the store is empty or holds one
\* file of another writer
InitRace ==
    /\ b_items \in SeqsUpTo(BuildItems, MaxBuildItems)
    /\ b_fmt = "markdown"
    /\ b_keep = FALSE
    /\ b_fs \in {<<>>} \cup {WriteFile(<<>>, d, Foreign) : d \in DestPaths(b_items, b_fmt, b_keep)}
    /\ b_tmpn = 0
    /\ b_events = <<>>
    /\ b_run = [r \in Runs |-> RunStart]
    /\ p_doc = NotXml
    /\ p_pc = "idle"
    /\ p_res = NotCalled
    /\ p_idx = 0
    /\ p_yielded = <<>>
    /\ p_err = NoErr
    /\ p_late = 0
    /\ tz = 0
    /\ d_pc = "idle"
    /\ d_rss = [wall |-> 13, zone |-> 0]
    /\ d_atom = [wall |-> 13]
    /\ d_out = [rss |-> 0, atom |-> 0]
    /\ cv_pc = "idle"
    /\ cv_data = PyNone
    /\ cv_fmt = "markdown"
    /\ cv_sys = [b \in Backends |-> "ok"]
    /\ cv_res = Ret(PyNone, "", <<>>)
    /\ f_url = "/var/feed.xml"
    /\ f_stack = <<>>
    /\ f_reqs = <<>>
    /\ f_prompts = 0
    /\ f_res = Pending

SpecRace == InitRace /\ [][NextRace]_vars

(***************************************************************************)
(* Claims about convert                                                    *)
(***************************************************************************)
Recognized(fmt) == fmt \in MarkdownAliases \cup RstAliases

AllFail(fmt, sys) == \A i \in 1..Len(Cmds(fmt)) : sys[Cmds(fmt)[i]] # "ok"

C6_EmptyInputAsGiven ==
    (cv_pc = "done" /\ IsEmpty(cv_data)) =>
        /\ cv_res.raised = "none"
        /\ cv_res.text = Str("")
        /\ cv_res.tag = cv_fmt
        /\ cv_res.invoked = <<>>

\* C7 as stated: for a target format that is no markdown or rst alias,
\* convert on non-empty input returns the input unchanged with tag html and
\* invokes no backend.
C7_UnrecognizedNoConversion ==
    (cv_pc = "done" /\ ~IsEmpty(cv_data) /\ ~Recognized(cv_fmt)) =>
        /\ cv_res.text = cv_data
        /\ cv_res.tag = "html"
        /\ cv_res.invoked = <<>>

\* C7 amended: for the target html, convert on non-empty input returns the
\* input unchanged with tag html and invokes no backend; for any other name
\* that is no alias it invokes pandoc alone, once, with that name as target,
\* and returns pandoc's output tagged with the lower-cased name, or, when
\* pandoc fails or is unavailable, the input unchanged with tag html.
C7_UnrecognizedGoesToPandoc ==
    (cv_pc = "done" /\ ~IsEmpty(cv_data) /\ ~Recognized(cv_fmt)) =>
        /\ cv_res.raised = "none"
        /\ cv_fmt = "html" =>
              cv_res = Ret(cv_data, "html", <<>>)
        /\ (cv_fmt # "html" /\ cv_sys["pandoc"] = "ok") =>
              cv_res = Ret(System("pandoc", cv_fmt, cv_data), Lower(cv_fmt), <<"pandoc">>)
        /\ (cv_fmt # "html" /\ cv_sys["pandoc"] # "ok") =>
              cv_res = Ret(cv_data, "html", <<"pandoc">>)

C7_Witness ==
    /\ cv_pc = "done" /\ cv_data = Str("<p>a</p>") /\ cv_fmt = "Textile"
    /\ cv_sys["pandoc"] = "ok"
    /\ cv_res.invoked = <<"pandoc">> /\ cv_res.tag = "textile"
    /\ cv_res.text.via = "pandoc"

\* C12 as stated: for every input and every target format the tag convert
\* returns is markdown, rst or html.
C12_TagIsConcrete ==
    cv_pc = "done" => cv_res.tag \in {"markdown", "rst", "html"}

\* C12 amended: the tag is markdown or html for a markdown alias, rst or
\* html for an rst alias, and html for the target html; for any other
\* target name it is html or that name: as given when the input is empty,
\* lower-cased when pandoc produced the text.
C12_TagIsNormalizedTarget ==
    cv_pc = "done" =>
        /\ cv_fmt \in MarkdownAliases => cv_res.tag \in {"markdown", "html"}
        /\ cv_fmt \in RstAliases => cv_res.tag \in {"rst", "html"}
        /\ cv_fmt = "html" => cv_res.tag = "html"
        /\ (~Recognized(cv_fmt) /\ cv_fmt # "html") =>
              cv_res.tag = IF IsEmpty(cv_data) THEN cv_fmt
                           ELSE IF cv_sys["pandoc"] = "ok" THEN Lower(cv_fmt)
                           ELSE "html"

C12_Witness ==
    /\ cv_pc = "done" /\ cv_fmt = "mkd" /\ cv_data = Str("<p>a</p>")
    /\ cv_sys["pandoc"] = "ok"
    /\ cv_res.tag = "markdown"

SpecificOf(fmt) == IF fmt \in MarkdownAliases THEN "html2text" ELSE "html2rest"

TargetOf(fmt) == IF fmt \in MarkdownAliases THEN "markdown" ELSE "rst"

\* C14: for a recognized target and non-empty input, pandoc is tried first
\* and the format's own backend (html2text for markdown, html2rest for rst)
\* only after pandoc raised or was unavailable; each is invoked at most
\* once, none after a success, and the result is the first successful
\* backend's output tagged with the normalized target.
C14_PandocThenSpecific ==
    (cv_pc = "done" /\ ~IsEmpty(cv_data) /\ Recognized(cv_fmt)) =>
        /\ cv_sys["pandoc"] = "ok" =>
              cv_res = Ret(System("pandoc", TargetOf(cv_fmt), cv_data),
                           TargetOf(cv_fmt), <<"pandoc">>)
        /\ (cv_sys["pandoc"] # "ok" /\ cv_sys[SpecificOf(cv_fmt)] = "ok") =>
              cv_res = Ret(System(SpecificOf(cv_fmt), TargetOf(cv_fmt), cv_data),
                           TargetOf(cv_fmt), <<"pandoc", SpecificOf(cv_fmt)>>)
        /\ (cv_sys["pandoc"] # "ok" /\ cv_sys[SpecificOf(cv_fmt)] # "ok") =>
              cv_res.invoked = <<"pandoc", SpecificOf(cv_fmt)>>

C14_Witness ==
    /\ cv_pc = "done" /\ cv_fmt = "rest" /\ cv_data = Str("<p>a</p>")
    /\ cv_sys["pandoc"] = "AcrylamidException" /\ cv_sys["html2rest"] = "ok"
    /\ cv_res.invoked = <<"pandoc", "html2rest">>
    /\ cv_res.text.via = "html2rest" /\ cv_res.tag = "rst"

(***************************************************************************)
(* Claims about fetch                                                      *)
(***************************************************************************)
\* C8: when fetch of an HTTP(S) URL receives 401, prompts, and the retry
\* with the typed credentials receives 200, fetch returns the body of the
\* retried response.
C8_RetryBodyReturned ==
    (/\ f_res.kind # "pending" /\ f_prompts = 1 /\ Len(f_reqs) = 2
     /\ f_reqs[1].code = 401 /\ f_reqs[2].code = 200) =>
        f_res = Returned(ResponseBody(2))

\* C9: within one top-level fetch the console is asked at most once and at
\* most two requests are sent.
C9_OnePromptTwoRequests == f_prompts <= 1 /\ Len(f_reqs) <= 2

(***************************************************************************)
(* Claims about dates                                                      *)
(***************************************************************************)
\* C10: for every local time zone, an RSS pubDate and an Atom updated stamp
\* that name the same UTC instant (such as "Wed, 02 Oct 2002 13:00:00 GMT"
\* and "2002-10-02T13:00:00Z") normalize to equal item dates.
C10_SameInstantSameDate ==
    (d_pc = "done" /\ mktime_tz(d_rss) = d_atom.wall) =>
        d_out.rss = d_out.atom

(***************************************************************************)
(* Claims about parse                                                      *)
(***************************************************************************)
Complete(item) == item.has = RequiredSet

AllComplete(doc) == \A i \in 1..Len(doc.items) : Complete(doc.items[i])

\* the first item that lacks a required element (0: none does)
FirstIncomplete(doc) ==
    IF AllComplete(doc) THEN 0
    ELSE CHOOSE i \in 1..Len(doc.items) :
            /\ ~Complete(doc.items[i])
            /\ \A j \in 1..(i - 1) : Complete(doc.items[j])

Consumed == p_pc \in {"stopped", "raised"}

SourceFormatError == p_err.msg = "unable to parse source"

\* C1: a well-formed document with root tag rss and version "2.0" whose N
\* items all carry title, pubDate, link and description is parsed by rss20:
\* parse returns the defaults and a generator that yields exactly N items.
C1_Rss20Parses ==
    (/\ p_pc # "call"
     /\ p_doc.wf /\ p_doc.root = "rss" /\ p_doc.version = "2.0" /\ p_doc.channel
     /\ AllComplete(p_doc)) =>
        /\ p_res.gen = "rss20"
        /\ p_err = NoErr
        /\ p_pc = "stopped" => Len(p_yielded) = Len(p_doc.items)

\* C2: when a document with the RSS signature (root tag rss, version "2.0")
\* has an item that lacks a required element, consuming what parse returns
\* ends in the field-validation error, at that item, atom is never tried
\* and no "unable to parse source" error is raised.
C2_RssFieldErrorIsFatal ==
    (/\ Consumed
     /\ p_doc.wf /\ p_doc.root = "rss" /\ p_doc.version = "2.0" /\ p_doc.channel
     /\ ~AllComplete(p_doc)) =>
        /\ p_err = Err("AcrylamidException", "invalid RSS 2.0 feed")
        /\ p_res.tried = <<"rss20">>
        /\ ~SourceFormatError
        /\ Len(p_yielded) = FirstIncomplete(p_doc) - 1

\* C2, for the documents line 86 lets through (a version other than "2.0")
C2_HoldsForOtherVersions ==
    (/\ Consumed
     /\ p_doc.wf /\ p_doc.root = "rss" /\ p_doc.channel /\ p_doc.version # "2.0"
     /\ ~AllComplete(p_doc)) =>
        /\ p_err = Err("AcrylamidException", "invalid RSS 2.0 feed")
        /\ p_res.tried = <<"rss20">>
        /\ ~SourceFormatError
        /\ Len(p_yielded) = FirstIncomplete(p_doc) - 1

NoSchemaAccepts(doc) == ~doc.wf \/ doc.root \notin {"rss", AtomFeed}

\* C3: for a document that is not well-formed, or whose root tag is neither
\* rss nor an Atom-2005 feed, parse tries rss20 then atom, each once, and
\* raises "unable to parse source" with one reason per method, that of
\* rss20 first; no item generator is returned.
C3_AllRejectedAggregates ==
    (p_pc # "call" /\ NoSchemaAccepts(p_doc)) =>
        /\ p_pc = "raised"
        /\ p_res.tried = <<"rss20", "atom">>
        /\ p_res.gen = ""
        /\ p_err.exc = "AcrylamidException"
        /\ p_err.msg = "unable to parse source"
        /\ p_err.reasons = IF p_doc.wf
                           THEN <<"no RSS 2.0 feed", "no Atom feed">>
                           ELSE <<"no well-formed XML", "no well-formed XML">>

C3_Witness ==
    /\ p_pc = "raised" /\ p_doc = Page("html")
    /\ p_res.tried = <<"rss20", "atom">>
    /\ p_err.reasons = <<"no RSS 2.0 feed", "no Atom feed">>

(***************************************************************************)
(* Claims about build                                                      *)
(***************************************************************************)
EventsOf(r) == {k \in 1..Len(b_events) : b_events[k].run = r}

\* run r has been through the existence check for the destination d
Checked(r, d) == b_run[r].dest = d /\ b_run[r].pc # "check"

\* C4: when build is run twice for the same item and destination, the first
\* run creates the destination file, and the second run raises "Entry
\* already exists" for it, emits no create event for it, and leaves the
\* file with the content the first run wrote.
C4_SecondRunRaises ==
    /\ \A k \in 1..Len(b_events) :
          /\ b_events[k].path \in DOMAIN b_fs
          /\ b_fs[b_events[k].path] = b_events[k].wrote
    /\ \A k \in EventsOf(1) :
          Checked(2, b_events[k].path) =>
             /\ b_run[2].pc = "raised"
             /\ b_run[2].err = Err("AcrylamidException", "Entry already exists")
             /\ \A j \in EventsOf(2) : b_events[j].path # b_events[k].path

C4_Witness ==
    /\ b_run[1].pc = "done" /\ b_run[2].pc = "raised"
    /\ \E k \in EventsOf(1) :
          /\ b_events[k].path = b_run[2].dest
          /\ b_fs[b_run[2].dest] = b_events[k].wrote
          /\ b_fs[b_run[2].tmp].body # b_events[k].wrote.body
    /\ EventsOf(2) = {}

\* the keys of the defaults of a feed whose metadata elements are meta
DefaultKeys(doc) ==
    IF doc.root = "rss" THEN {RssKey(k) : k \in doc.meta}
    ELSE {AtomKey(k) : k \in doc.meta}

\* C11: when a document with the Atom signature has an entry that lacks
\* title, updated, link or content, whatever the type of its content,
\* consuming what parse returns ends in the field-validation error
\* ("invalid Atom feed") and in no other failure.
C11_AtomFieldError ==
    (/\ Consumed
     /\ p_doc.wf /\ p_doc.root = AtomFeed /\ p_doc.meta = AtomMeta
     /\ ~AllComplete(p_doc)) =>
        p_err = Err("AcrylamidException", "invalid Atom feed")

\* C17: for either schema, a feed with the schema's signature that lacks
\* document-level metadata elements still parses, and the defaults hold
\* the keys of the elements present and no others.  (RSS documents of
\* version "2.0" are the matter of C1 and are left out here.)
C17_PartialDefaults ==
    (/\ p_pc # "call"
     /\ p_doc.wf /\ p_doc.channel
     /\ (p_doc.root = "rss" /\ p_doc.version # "2.0") \/ p_doc.root = AtomFeed) =>
        /\ p_res.err = NoErr
        /\ p_res.gen # ""
        /\ {d.key : d \in p_res.defaults} = DefaultKeys(p_doc)

(***************************************************************************)
(* Claims about build, continued                                           *)
(***************************************************************************)
\* the create events of run r, in the order they were emitted
RunEvents(r) ==
    LET OfRun(e) == e.run = r
    IN SelectSeq(b_events, OfRun)

\* C15: build takes the items in order and stops at the first error: when
\* the destination of item k exists the run raises at k, the entries of
\* exactly the items 1..k-1 have been created and announced and stay in
\* the store, and after the error the run does nothing more: no later item
\* is converted, written or announced.
C15_StopsAtFirstError ==
    /\ [](\A r \in Runs :
            b_run[r].pc = "raised" =>
               /\ Len(RunEvents(r)) = b_run[r].i - 1
               /\ \A j \in 1..Len(RunEvents(r)) :
                     /\ RunEvents(r)[j].wrote.title = b_items[j].title
                     /\ RunEvents(r)[j].path \in DOMAIN b_fs)
    /\ [][\A r \in Runs :
            /\ b_run[r].pc = "raised" =>
                  /\ b_run'[r] = b_run[r]
                  /\ RunEvents(r)' = RunEvents(r)
            /\ (/\ b_run[r].pc = "check"
                /\ b_run[r].dest \in DOMAIN b_fs
                /\ b_run'[r] # b_run[r]) =>
                  /\ b_run'[r].pc = "raised"
                  /\ b_run'[r].i = b_run[r].i]_vars

C15_Witness ==
    /\ Len(b_items) = 2
    /\ b_run[1].pc = "raised" /\ b_run[1].i = 2
    /\ Len(RunEvents(1)) = 1
    /\ RunEvents(1)[1].path = b_run[1].dest
    /\ b_fs[b_run[1].dest] = RunEvents(1)[1].wrote

\* C16: when a run aborts because the destination exists, the temporary
\* file of the item is discarded: no temporary file remains.
C16_TempDiscarded ==
    \A r \in Runs :
        b_run[r].pc = "raised" => b_run[r].tmp \notin DOMAIN b_fs

\* the item run r is at and the temporary file written for it
ItemAt(r) == b_items[b_run[r].i]

Written(r) == b_run[r].pc \in {"check", "rename", "raised"}

\* C18 as stated: the permalink line is written exactly when keep is set
\* and the path of the item's link is not "/", with that path as its value.
C18_PermalinkIffNotRoot ==
    \A r \in Runs :
        Written(r) =>
           LET path == urlsplit_path(ItemAt(r).link)
               file == b_fs[b_run[r].tmp]
           IN /\ (file.permalink # NoPermalink) <=> (b_keep /\ path # <<"">>)
              /\ file.permalink # NoPermalink => file.permalink = path

\* C18 amended: the permalink line is written exactly when keep is set and
\* the path of the item's link is neither "/" nor empty, with that path as
\* its value; with keep unset it is never written.
C18_PermalinkIffProperPath ==
    \A r \in Runs :
        Written(r) =>
           LET path == urlsplit_path(ItemAt(r).link)
               file == b_fs[b_run[r].tmp]
           IN /\ (file.permalink # NoPermalink) <=>
                    (b_keep /\ path # <<"">> /\ path # <<>>)
              /\ file.permalink # NoPermalink => file.permalink = path

C18_Witness ==
    /\ b_keep /\ Written(1)
    /\ ItemAt(1).link = "http://host/x/"
    /\ b_fs[b_run[1].tmp].permalink = <<"x", "">>

\* C13: when two runs interleave on one destination, a file that exists is
\* never replaced: at most one run announces the path, the file keeps the
\* content that run wrote, for every order of the checks and renames.
C13_NeverReplaced ==
    \A k \in 1..Len(b_events) :
        /\ b_events[k].path \in DOMAIN b_fs
        /\ b_fs[b_events[k].path] = b_events[k].wrote
        /\ \A j \in 1..Len(b_events) :
              j # k => b_events[j].path # b_events[k].path

(***************************************************************************)
(* Claims about the generator parse returns                                *)
(***************************************************************************)
\* C19: parse hands the defaults back before any item is realized; the
\* generator then yields the items in document order, each at most once
\* and one per request; once it is exhausted or has raised it yields
\* nothing further and does not start over.
C19_LazySinglePass ==
    /\ [](/\ Len(p_yielded) = p_idx
          /\ p_idx <= Len(p_doc.items)
          /\ \A k \in 1..Len(p_yielded) :
                /\ p_yielded[k].title = Text("title", k)
                /\ p_yielded[k].link = Text("link", k))
    /\ [][/\ p_pc = "call" => p_yielded' = <<>>
          /\ Len(p_yielded') <= Len(p_yielded) + 1
          /\ SubSeq(p_yielded', 1, Len(p_yielded)) = p_yielded
          /\ p_pc \in {"stopped", "raised"} =>
                /\ p_yielded' = p_yielded
                /\ p_pc' = p_pc]_vars

C19_Witness ==
    /\ p_pc = "stopped" /\ p_late = MaxLateCalls
    /\ Len(p_doc.items) = 2 /\ Len(p_yielded) = 2
    /\ p_yielded[1].title = Text("title", 1)
    /\ p_yielded[2].title = Text("title", 2)

====
